---- MODULE Spec2Model ----
(***************************************************************************)
(* Bepa (src/main.py): a monitor that polls the host's connection table,   *)
(* alerts on established connections whose remote address is inside a      *)
(* target range and outside every exclude range, and remembers the         *)
(* endpoints it has alerted on until they vanish from a sample.            *)
(*                                                                         *)
(* Text (environment values, remote addresses, connection ids) is a        *)
(* sequence of one-character strings, so that splitting, stripping,        *)
(* parsing and formatting are computed as the code computes them.  The     *)
(* characters up to U+00FF are written as themselves; a character above    *)
(* U+00FF, which a string of this module cannot hold, is written as its    *)
(* name, "U+" and its code point in hexadecimal (UnicodeChar).             *)
(* A 32-bit IPv4 address is kept as its four octets and a 128-bit IPv6     *)
(* address as its eight hextets: every mask and comparison is done word by *)
(* word, which is the same bitwise arithmetic without leaving TLC's        *)
(* integer range.                                                          *)
(***************************************************************************)
EXTENDS Integers, Sequences, FiniteSets, TLC

VARIABLES
    env,                 \* os.environ after load_dotenv(): target, exclude, interval
    pc,                  \* position of the single thread of control
    entries,             \* the split list the current parsing loop iterates over
    i,                   \* index of the next entry of that loop
    target_ranges,       \* self.target_ranges
    exclude_ranges,      \* self.exclude_ranges
    warnings,            \* entries a parsing loop printed a warning for
    alerted_connections, \* self.alerted_connections
    connections,         \* the sample of the current cycle
    idx,                 \* index of the next connection of the for loop
    printed,             \* lines the loop printed in the current cycle (a window on
                         \* stdout: emptied when the cycle's sleep returns)
    exit_code,           \* the process's return code, -1 while it runs, -2 when
                         \* it died of SIGINT
    episode              \* per connection id: its alert history (see MarkAlert, MarkCycle)

vars == <<env, pc, entries, i, target_ranges, exclude_ranges, warnings,
          alerted_connections, connections, idx, printed, exit_code, episode>>

-----------------------------------------------------------------------------
(* Bounds of the model.                                                    *)

\* The longest sample psutil.net_connections returns in the model.
MaxConns == 2

-----------------------------------------------------------------------------
(* Text.                                                                   *)

DigitChars == <<"0", "1", "2", "3", "4", "5", "6", "7", "8", "9">>

Digits == {DigitChars[k] : k \in 1..10}

HexChars == <<"0", "1", "2", "3", "4", "5", "6", "7", "8", "9",
              "a", "b", "c", "d", "e", "f">>

UpperHexChars == <<"0", "1", "2", "3", "4", "5", "6", "7", "8", "9",
                   "A", "B", "C", "D", "E", "F">>

\* A code point in hexadecimal, as one string.
RECURSIVE CodePointHex(_)
CodePointHex(cp) ==
    IF cp < 16 THEN UpperHexChars[cp + 1]
    ELSE CodePointHex(cp \div 16) \o UpperHexChars[(cp % 16) + 1]

\* The character of a code point above U+00FF: one element of a text, written
\* "U+1680", "U+3000", "U+1FBF0".
UnicodeChar(cp) == "U+" \o (IF cp < 4096 THEN "0" ELSE "") \o CodePointHex(cp)

\* The characters above U+00FF that str.isspace() holds for: U+1680, U+2000 to
\* U+200A, U+2028, U+2029, U+202F, U+205F and U+3000.
UnicodeSpaces ==
    {UnicodeChar(cp) : cp \in {5760} \cup (8192..8202) \cup {8232, 8233, 8239, 8287, 12288}}

\* The characters str.strip() removes, those str.isspace() holds for: space, \t,
\* \n, \r, \f, and U+000B, U+001C to U+001F, U+0085 and U+00A0, which are
\* written here as themselves, and the spaces above U+00FF.
Whitespace ==
    {" ", "\t", "\n", "\r", "\f", "", "", "", "", "", "", " "}
        \cup UnicodeSpaces

\* The characters int() skips around a number: the same without U+001C to U+001F.
IntWhitespace ==
    {" ", "\t", "\n", "\r", "\f", "", "", " "}
        \cup UnicodeSpaces

\* The code points of the digits zero of the decimal digits (category Nd) other
\* than the ASCII ones; the nine code points after each are its digits 1 to 9.
DecimalZeros ==
    { 1632, 1776, 1984, 2406, 2534, 2662, 2790, 2918, 3046, 3174, 3302, 3430, 3558,
      3664, 3792, 3872, 4160, 4240, 6112, 6160, 6470, 6608, 6784, 6800, 6992, 7088,
      7232, 7248, 42528, 43216, 43264, 43472, 43504, 43600, 44016, 65296, 66720,
      68912, 69734, 69872, 69942, 70096, 70384, 70736, 70864, 71248, 71360, 71472,
      71904, 72016, 72784, 73040, 73120, 92768, 92864, 93008, 120782, 120792, 120802,
      120812, 120822, 123200, 123632, 125264, 130032 }

\* Py_UNICODE_TODECIMAL on the decimal digits that are not ASCII: their values.
UnicodeDigitValue ==
    LET digits == {<<UnicodeChar(zero + k), k>> : zero \in DecimalZeros, k \in 0..9}
    IN  [c \in {d[1] : d \in digits} |-> (CHOOSE d \in digits : d[1] = c)[2]]

\* sys.get_int_max_str_digits(): the longest digit string int() converts.
MaxStrDigits == 4300

DigitVal(c) == (CHOOSE k \in 1..10 : DigitChars[k] = c) - 1

\* str(n) for n >= 0, as the f-strings format a port.
RECURSIVE IntToStr(_)
IntToStr(n) ==
    IF n < 10 THEN <<DigitChars[n + 1]>>
    ELSE IntToStr(n \div 10) \o <<DigitChars[(n % 10) + 1]>>

\* int(s) for a string of ASCII digits.
RECURSIVE DigitsToInt(_)
DigitsToInt(s) ==
    IF s = <<>> THEN 0
    ELSE 10 * DigitsToInt(SubSeq(s, 1, Len(s) - 1)) + DigitVal(s[Len(s)])

\* s.isascii() and s.isdigit(): non-empty, digits only.
IsDigits(s) == s # <<>> /\ \A k \in 1..Len(s) : s[k] \in Digits

\* str.split(sep): the pieces between the separators, empty pieces kept.
RECURSIVE Split(_, _)
Split(s, sep) ==
    IF \E k \in 1..Len(s) : s[k] = sep
    THEN LET k == CHOOSE j \in 1..Len(s) :
                     s[j] = sep /\ \A h \in 1..(j - 1) : s[h] # sep
         IN  <<SubSeq(s, 1, k - 1)>> \o Split(SubSeq(s, k + 1, Len(s)), sep)
    ELSE <<s>>

\* The text without its leading and trailing characters of the set.
RECURSIVE StripChars(_, _)
StripChars(s, chars) ==
    IF s = <<>> THEN s
    ELSE IF s[1] \in chars THEN StripChars(Tail(s), chars)
    ELSE IF s[Len(s)] \in chars THEN StripChars(SubSeq(s, 1, Len(s) - 1), chars)
    ELSE s

\* str.strip(): leading and trailing whitespace removed.
Strip(s) == StripChars(s, Whitespace)

\* The digits of a number without its leading zeros ("0" for zero).
Normalized(digits) ==
    IF \A k \in 1..Len(digits) : digits[k] = "0"
    THEN IF digits = <<>> THEN <<>> ELSE <<"0">>
    ELSE SubSeq(digits,
                CHOOSE k \in 1..Len(digits) :
                    digits[k] # "0" /\ \A j \in 1..(k - 1) : digits[j] = "0",
                Len(digits))

\* a < b for two numbers given by their normalized digits.
RECURSIVE DigitsLess(_, _)
DigitsLess(a, b) ==
    IF Len(a) # Len(b) THEN Len(a) < Len(b)
    ELSE IF a = <<>> THEN FALSE
    ELSE IF a[1] # b[1] THEN DigitVal(a[1]) < DigitVal(b[1])
    ELSE DigitsLess(Tail(a), Tail(b))

-----------------------------------------------------------------------------
(* ipaddress: addresses and networks of both versions.  A 32-bit IPv4      *)
(* address is kept as its four octets and a 128-bit IPv6 address as its    *)
(* eight hextets: every mask and comparison is done word by word, which is *)
(* the same bitwise arithmetic without leaving TLC's integer range.        *)

NoAddress ==
    [ok |-> FALSE, version |-> 0, octets |-> <<>>, hextets |-> <<>>, scope_id |-> <<>>]

NoNetwork ==
    [ok |-> FALSE, version |-> 0, octets |-> <<>>, hextets |-> <<>>, scope_id |-> <<>>,
     prefixlen |-> 0]

\* IPv4Address._parse_octet: decimal digits, at most three, no leading zero, <= 255.
ParseOctet(s) ==
    IF /\ IsDigits(s)
       /\ Len(s) <= 3
       /\ (s[1] = "0" => Len(s) = 1)
    THEN LET octet == DigitsToInt(s) IN IF octet <= 255 THEN octet ELSE -1
    ELSE -1

\* IPv4Address(s), by _ip_int_from_string: exactly four valid octets.
IPv4Address(s) ==
    LET parts  == Split(s, ".")
        octets == [k \in 1..4 |-> ParseOctet(parts[k])]
    IN  IF Len(parts) = 4 /\ \A k \in 1..4 : octets[k] >= 0
        THEN [ok |-> TRUE, version |-> 4, octets |-> octets,
              hextets |-> <<>>, scope_id |-> <<>>]
        ELSE NoAddress

\* _HEX_DIGITS: the hexadecimal digits of either case.
HexDigits == {HexChars[k] : k \in 1..16} \cup {UpperHexChars[k] : k \in 1..16}

HexVal(c) == (CHOOSE k \in 1..16 : HexChars[k] = c \/ UpperHexChars[k] = c) - 1

\* int(s, 16) for a string of hexadecimal digits.
RECURSIVE HexToInt(_)
HexToInt(s) ==
    IF s = <<>> THEN 0
    ELSE 16 * HexToInt(SubSeq(s, 1, Len(s) - 1)) + HexVal(s[Len(s)])

\* '%x' % n for n >= 0.
RECURSIVE HexStr(_)
HexStr(n) ==
    IF n < 16 THEN <<HexChars[n + 1]>>
    ELSE HexStr(n \div 16) \o <<HexChars[(n % 16) + 1]>>

\* sep.join(pieces).
RECURSIVE Join(_, _)
Join(pieces, sep) ==
    IF pieces = <<>> THEN <<>>
    ELSE IF Len(pieces) = 1 THEN pieces[1]
    ELSE pieces[1] \o <<sep>> \o Join(Tail(pieces), sep)

\* IPv6Address._parse_hextet: one to four hexadecimal digits.
ParseHextet(s) ==
    IF /\ \A k \in 1..Len(s) : s[k] \in HexDigits
       /\ Len(s) <= 4
       /\ s # <<>>
    THEN HexToInt(s)
    ELSE -1

\* _ip_int_from_string, the last step: parts_hi hextets from the front, parts_lo
\* from the back, zeros between; <<>> when one of them is no hextet.
ParseHextets(parts, parts_hi, parts_lo) ==
    LET all == [k \in 1..8 |->
                   IF k <= parts_hi THEN ParseHextet(parts[k])
                   ELSE IF k > 8 - parts_lo THEN ParseHextet(parts[Len(parts) - 8 + k])
                   ELSE 0]
    IN  IF \E k \in 1..8 : all[k] < 0 THEN <<>> ELSE all

\* _ip_int_from_string, the middle step: at most nine parts; an empty part that
\* is neither the first nor the last is the '::', of which there is at most one;
\* an empty first or last part is allowed only next to it.
SkipParts(parts) ==
    LET n     == Len(parts)
        skips == {k \in 2..(n - 1) : parts[k] = <<>>}
        skip  == CHOOSE k \in skips : TRUE
        hi    == IF parts[1] = <<>> THEN skip - 2 ELSE skip - 1
        lo    == IF parts[n] = <<>> THEN n - skip - 1 ELSE n - skip
    IN  IF n > 9 \/ Cardinality(skips) > 1 THEN <<>>
        ELSE IF skips = {}
        THEN IF n = 8 /\ parts[1] # <<>> /\ parts[n] # <<>>
             THEN ParseHextets(parts, 8, 0)
             ELSE <<>>
        ELSE IF \/ (parts[1] = <<>> /\ hi # 0)
                \/ (parts[n] = <<>> /\ lo # 0)
                \/ 8 - (hi + lo) < 1
        THEN <<>>
        ELSE ParseHextets(parts, hi, lo)

\* _ip_int_from_string, the first step for a dotted last part: it is an IPv4
\* address and stands for two hextets.
DottedParts(parts, v4) ==
    IF v4.ok
    THEN SkipParts(SubSeq(parts, 1, Len(parts) - 1)
                       \o <<HexStr(256 * v4.octets[1] + v4.octets[2]),
                            HexStr(256 * v4.octets[3] + v4.octets[4])>>)
    ELSE <<>>

\* _ip_int_from_string of the text split at ':': at least three parts.
HextetsOfParts(parts) ==
    IF Len(parts) < 3 THEN <<>>
    ELSE IF \E k \in 1..Len(parts[Len(parts)]) : parts[Len(parts)][k] = "."
    THEN DottedParts(parts, IPv4Address(parts[Len(parts)]))
    ELSE SkipParts(parts)

\* IPv6Address._ip_int_from_string: the eight hextets of the text, or <<>> for
\* AddressValueError.
Ipv6IntFromString(s) == IF s = <<>> THEN <<>> ELSE HextetsOfParts(Split(s, ":"))

\* The IPv6 address of its hextets and scope, <<>> being no hextets.
Ipv6Of(hextets, scope) ==
    IF hextets = <<>> THEN NoAddress
    ELSE [ok |-> TRUE, version |-> 6, octets |-> <<>>, hextets |-> hextets,
          scope_id |-> scope]

\* IPv6Address(s): no '/', an optional '%scope' that is not empty and has no
\* other '%', and the hextets of what stands before it.
IPv6Address(s) ==
    LET marks == {k \in 1..Len(s) : s[k] = "%"}
        mark  == CHOOSE k \in marks : TRUE
    IN  IF \E k \in 1..Len(s) : s[k] = "/" THEN NoAddress
        ELSE IF marks = {} THEN Ipv6Of(Ipv6IntFromString(s), <<>>)
        ELSE IF Cardinality(marks) > 1 \/ mark = Len(s) THEN NoAddress
        ELSE Ipv6Of(Ipv6IntFromString(SubSeq(s, 1, mark - 1)), SubSeq(s, mark + 1, Len(s)))

\* The first of two results that is one.
OrElse(first, second) == IF first.ok THEN first ELSE second

\* ipaddress.ip_address(s): IPv4Address first, IPv6Address second; NoAddress
\* stands for ValueError.
IpAddress(s) == OrElse(IPv4Address(s), IPv6Address(s))

\* The words of an address or network, and the number of bits of one word.
Words(x) == IF x.version = 4 THEN x.octets ELSE x.hextets

WordBits(x) == IF x.version = 4 THEN 8 ELSE 16

Pow2(n) == 2^n

\* How many of the bits of word k are network bits under a prefix length.
NetBits(prefixlen, k, bits) ==
    LET b == prefixlen - bits * (k - 1) IN IF b < 0 THEN 0 ELSE IF b > bits THEN bits ELSE b

\* IPv4Network._ip_int_from_prefix: the netmask of a prefix length, by octet.
NetmaskOctets(prefixlen) == [k \in 1..4 |-> 256 - Pow2(8 - NetBits(prefixlen, k, 8))]

\* _prefix_from_prefix_string: ASCII digits that int() converts (MaxStrDigits of
\* them at most) to a value that is at most max_prefixlen.
PrefixFromPrefixString(s, max_prefixlen) ==
    IF /\ IsDigits(s)
       /\ Len(s) <= MaxStrDigits
       /\ Len(Normalized(s)) <= 3
       /\ DigitsToInt(Normalized(s)) <= max_prefixlen
    THEN DigitsToInt(Normalized(s))
    ELSE -1

\* _prefix_from_ip_int: the prefix length whose netmask is these octets.
PrefixFromIpInt(octets) ==
    IF \E p \in 0..32 : NetmaskOctets(p) = octets
    THEN CHOOSE p \in 0..32 : NetmaskOctets(p) = octets
    ELSE -1

\* _prefix_from_ip_string: a dotted netmask, or else a dotted hostmask.
PrefixFromIpString(s) ==
    LET a == IPv4Address(s) IN
    IF ~a.ok THEN -1
    ELSE IF PrefixFromIpInt(a.octets) >= 0 THEN PrefixFromIpInt(a.octets)
    ELSE PrefixFromIpInt([k \in 1..4 |-> 255 - a.octets[k]])

\* _BaseV4._make_netmask: the prefix-length form first, the dotted form second.
MakeNetmask(s) ==
    IF PrefixFromPrefixString(s, 32) >= 0 THEN PrefixFromPrefixString(s, 32)
    ELSE PrefixFromIpString(s)

\* packed & netmask != packed: the address has host bits set.
HasHostBits(a, prefixlen) ==
    \E k \in 1..Len(Words(a)) :
        Words(a)[k] % Pow2(WordBits(a) - NetBits(prefixlen, k, WordBits(a))) # 0

\* The network of an address and a prefix length, with strict=True: NoNetwork
\* when either is not valid or the address has host bits set.
NetworkOf(a, prefixlen) ==
    IF ~a.ok \/ prefixlen < 0 THEN NoNetwork
    ELSE IF HasHostBits(a, prefixlen) THEN NoNetwork
    ELSE [ok |-> TRUE, version |-> a.version, octets |-> a.octets,
          hextets |-> a.hextets, scope_id |-> a.scope_id, prefixlen |-> prefixlen]

\* IPv4Network of the text split at '/': the mask is a prefix length, a netmask
\* or a hostmask, and /32 when there is none.
IPv4Network(parts) ==
    NetworkOf(IPv4Address(parts[1]), IF Len(parts) = 2 THEN MakeNetmask(parts[2]) ELSE 32)

\* IPv6Network of the text split at '/': the mask is a prefix length, and /128
\* when there is none.
IPv6Network(parts) ==
    NetworkOf(IPv6Address(parts[1]),
              IF Len(parts) = 2 THEN PrefixFromPrefixString(parts[2], 128) ELSE 128)

\* At most one '/' in the text of a network.
NetworkOfParts(parts) ==
    IF Len(parts) > 2 THEN NoNetwork ELSE OrElse(IPv4Network(parts), IPv6Network(parts))

\* ipaddress.ip_network(s) with strict=True; NoNetwork stands for ValueError.
\* IPv4Network is tried first and IPv6Network second.
IpNetwork(s) == NetworkOfParts(Split(s, "/"))

\* `ip in network`: False for an address of the other version; else the address
\* masked by the netmask is the network address.
InNetwork(ip, net) ==
    /\ ip.version = net.version
    /\ \A k \in 1..Len(Words(net)) :
          LET hostmask == Pow2(WordBits(net) - NetBits(net.prefixlen, k, WordBits(net)))
          IN  Words(ip)[k] \div hostmask = Words(net)[k] \div hostmask

\* IPv6Address._compress_hextets and ':'.join: the hextets in hexadecimal, the
\* first of the longest runs of two or more zero hextets written '::'.
Ipv6Str(hextets) ==
    LET RunAt(b) == CHOOSE n \in 0..8 :
                        /\ \A k \in b..(b + n - 1) : hextets[k] = 0
                        /\ (b + n <= 8 => hextets[b + n] # 0)
        best  == CHOOSE b \in 1..8 :
                     \A c \in 1..8 : RunAt(c) < RunAt(b) \/ (RunAt(c) = RunAt(b) /\ b <= c)
        texts == [k \in 1..8 |-> HexStr(hextets[k])]
    IN  IF RunAt(best) > 1
        THEN Join(SubSeq(texts, 1, best - 1), ":") \o <<":", ":">>
                 \o Join(SubSeq(texts, best + RunAt(best), 8), ":")
        ELSE Join(texts, ":")

\* str(network): the network address, a slash, the prefix length.
NetworkStr(net) ==
    IF net.version = 4
    THEN IntToStr(net.octets[1]) \o <<".">> \o IntToStr(net.octets[2]) \o <<".">>
             \o IntToStr(net.octets[3]) \o <<".">> \o IntToStr(net.octets[4])
             \o <<"/">> \o IntToStr(net.prefixlen)
    ELSE Ipv6Str(net.hextets)
             \o (IF net.scope_id = <<>> THEN <<>> ELSE <<"%">> \o net.scope_id)
             \o <<"/">> \o IntToStr(net.prefixlen)

\* The first range of a list that holds an address: (False, None) when there is
\* none, else (True, str(range)).
FirstMatch(ip, ranges) ==
    LET hits == {k \in 1..Len(ranges) : InNetwork(ip, ranges[k])}
    IN  IF ~ip.ok \/ hits = {} THEN [found |-> FALSE, range |-> <<>>]
        ELSE [found |-> TRUE,
              range |-> NetworkStr(ranges[CHOOSE k \in hits : \A h \in hits : k <= h])]

\* The loop shared by is_target_ip and is_excluded_ip: (False, None) when the
\* address does not parse or no range holds it.
MatchRange(ip_str, ranges) == FirstMatch(IpAddress(ip_str), ranges)

\* A variant of is_target_ip whose `return True` of line 72 is outside the `if`:
\* the first target range is returned whether or not it holds the address.
IsTargetIpFirstRange(ip_str) ==
    IF IpAddress(ip_str).ok /\ target_ranges # <<>>
    THEN [found |-> TRUE, range |-> NetworkStr(target_ranges[1])]
    ELSE [found |-> FALSE, range |-> <<>>]

IsTargetIp(ip_str) == MatchRange(ip_str, target_ranges)

\* A variant of is_excluded_ip that never consults the exclude list.
IsExcludedIpSkipped(ip_str) == MatchRange(ip_str, <<>>)

IsExcludedIp(ip_str) == MatchRange(ip_str, exclude_ranges)

\* The body of a decimal literal: digits, with single underscores between them.
IsDigitGroups(s) ==
    /\ s # <<>>
    /\ s[1] \in Digits
    /\ s[Len(s)] \in Digits
    /\ \A k \in 1..Len(s) : s[k] \in Digits \/ s[k] = "_"
    /\ \A k \in 1..(Len(s) - 1) : ~(s[k] = "_" /\ s[k + 1] = "_")

\* _PyUnicode_TransformDecimalAndSpaceToASCII on a character that is no space:
\* a decimal digit becomes its ASCII digit.
ToAsciiDigit(c) ==
    IF c \in DOMAIN UnicodeDigitValue THEN DigitChars[UnicodeDigitValue[c] + 1] ELSE c

\* The integer of a sign and the body of a literal: digits with single
\* underscores between them, MaxStrDigits digits at most.
IntOfBody(negative, body) ==
    IF IsDigitGroups(body) /\ Len(SelectSeq(body, LAMBDA c : c # "_")) <= MaxStrDigits
    THEN [ok |-> TRUE, negative |-> negative,
          digits |-> Normalized(SelectSeq(body, LAMBDA c : c # "_"))]
    ELSE [ok |-> FALSE, negative |-> FALSE, digits |-> <<>>]

\* The integer of a text without surrounding whitespace: an optional sign, then
\* the body, its decimal digits taken as ASCII digits.
IntOfStripped(t) ==
    IF t = <<>> THEN IntOfBody(FALSE, <<>>)
    ELSE IF t[1] \in {"+", "-"}
    THEN IntOfBody(t[1] = "-", [k \in 1..(Len(t) - 1) |-> ToAsciiDigit(t[k + 1])])
    ELSE IntOfBody(FALSE, [k \in 1..Len(t) |-> ToAsciiDigit(t[k])])

\* int(s): optional surrounding whitespace, optional sign, decimal digits with
\* optional single underscores between them.  The number is kept as its sign and
\* its normalized digits, whatever its size.
PyInt(s) == IntOfStripped(StripChars(s, IntWhitespace))

-----------------------------------------------------------------------------
(* The environment and the connection table the program reads.             *)

Ip4(a, b, c, d) ==
    IntToStr(a) \o <<".">> \o IntToStr(b) \o <<".">> \o IntToStr(c) \o <<".">> \o IntToStr(d)

Cidr(a, b, c, d, p) == Ip4(a, b, c, d) \o <<"/">> \o IntToStr(p)

\* '0' * n.
Zeros(n) == [k \in 1..n |-> "0"]

\* The default of TARGET_IP_RANGES: '10.10.0.0/8,172.16.0.0/12,192.168.0.0/16'.
DefaultTargetRanges ==
    Cidr(10, 10, 0, 0, 8) \o <<",">> \o Cidr(172, 16, 0, 0, 12) \o <<",">>
        \o Cidr(192, 168, 0, 0, 16)

\* The default of EXCLUDE_IP_RANGES: '192.168.1.1/32'.
DefaultExcludeRanges == Cidr(192, 168, 1, 1, 32)

\* The default of MONITOR_INTERVAL: '2'.
DefaultInterval == <<"2">>

\* os.getenv(name, default): a variable is <<>> when unset, <<text>> when set.
Getenv(value, default) == IF value = <<>> THEN default ELSE value[1]

Unset == <<>>

\* The environments of the monitoring runs: the defaults; the spec's scenario of a
\* target range with one excluded host; no valid target at all; no exclude range;
\* a MONITOR_INTERVAL that is no integer; an IPv6 target range and values that end
\* in a carriage return or a line feed, the interval being written with a space and
\* a digit that are not ASCII; a target range between two spaces that are not ASCII
\* and an interval of more digits than int() converts.
Environments ==
    { [target |-> Unset, exclude |-> Unset, interval |-> Unset],
      [target   |-> <<Cidr(10, 0, 0, 0, 8) \o <<",">> \o Cidr(192, 168, 0, 0, 16)>>,
       exclude  |-> <<Cidr(10, 0, 0, 1, 32)>>,
       interval |-> <<<<"1">>>>],
      [target   |-> <<Cidr(999, 1, 1, 1, 33) \o <<",", " ", ",">> \o Cidr(10, 10, 0, 0, 8)>>,
       exclude  |-> Unset,
       interval |-> Unset],
      [target   |-> <<<<" ">> \o Cidr(192, 168, 0, 0, 16)>>,
       exclude  |-> <<<<>>>>,
       interval |-> <<<<"2", "s">>>>],
      [target   |-> <<<<":", ":", "/", "0", "\r">>>>,
       exclude  |-> Unset,
       interval |-> <<<<UnicodeChar(5760), UnicodeChar(1633), "_", "0", "\n">>>>],
      [target   |-> <<<<UnicodeChar(12288)>> \o Cidr(172, 16, 0, 0, 12)
                         \o <<UnicodeChar(8195)>>>>,
       exclude  |-> Unset,
       interval |-> <<Zeros(MaxStrDigits) \o <<"7">>>>] }

CONN_ESTABLISHED == "ESTABLISHED"

\* psutil's connection tuples: laddr and raddr are (ip, port) or empty, pid is 0
\* for None (line 128 reads only its truth value).
Conn(status, lport, raddr, pid) ==
    [status |-> status, laddr |-> <<Ip4(10, 0, 0, 9), lport>>, raddr |-> raddr, pid |-> pid]

\* The connections a sample is drawn from.  An established TCP connection has both
\* addresses; a listening socket has no remote address.  One remote address is an
\* IPv6 address and one ("8.8.8") is no address at all.
ConnectionTable ==
    { Conn(CONN_ESTABLISHED, 5001, <<Ip4(10, 0, 0, 2), 443>>, 100),
      Conn(CONN_ESTABLISHED, 5002, <<Ip4(10, 0, 0, 2), 443>>, 0),
      Conn(CONN_ESTABLISHED, 5003, <<Ip4(10, 0, 0, 1), 443>>, 100),
      Conn(CONN_ESTABLISHED, 5004, <<Ip4(192, 168, 1, 5), 22>>, 200),
      Conn(CONN_ESTABLISHED, 5005, <<<<"8", ".", "8", ".", "8">>, 53>>, 200),
      Conn(CONN_ESTABLISHED, 5006, <<<<":", ":", "1">>, 80>>, 0),
      Conn("TIME_WAIT", 5001, <<Ip4(10, 0, 0, 2), 443>>, 0),
      [status |-> "LISTEN", laddr |-> <<Ip4(0, 0, 0, 0), 22>>, raddr |-> <<>>, pid |-> 300] }

\* What psutil.net_connections can return: any list of at most MaxConns of them.
Samples == UNION {[1..n -> ConnectionTable] : n \in 0..MaxConns}

\* f"{ip}:{port}" of a connection's remote address.
ConnId(conn) == conn.raddr[1] \o <<":">> \o IntToStr(conn.raddr[2])

AllConnIds == {ConnId(c) : c \in {d \in ConnectionTable : d.raddr # <<>>}}

-----------------------------------------------------------------------------
(* Printed lines.                                                          *)

Line(type, conn_id, process, range, lport, pid, what) ==
    [type |-> type, conn_id |-> conn_id, process |-> process, range |-> range,
     lport |-> lport, pid |-> pid, what |-> what]

\* Lines 130-135: the alert block of one connection.
AlertLine(conn, process, range) ==
    Line("ALERT", ConnId(conn), process, range, conn.laddr[2], conn.pid, "")

\* Line 64: "Failed to send notification".
NotifyFailedLine == Line("notify_failed", <<>>, "", <<>>, 0, 0, "")

\* Line 152: "Stopping network monitor...".
StoppingLine == Line("stopping", <<>>, "", <<>>, 0, 0, "")

\* Line 154: "Error during monitoring: {e}", e being what raised.
ErrorLine(what) == Line("error", <<>>, "", <<>>, 0, 0, what)

AlertsFor(lines, conn_id) ==
    {k \in 1..Len(lines) : lines[k].type = "ALERT" /\ lines[k].conn_id = conn_id}

-----------------------------------------------------------------------------
(* The alert history of a connection id, kept beside the program's state:  *)
(* "unseen"  no alert has been printed for it;                             *)
(* "held"    an alert has been printed for it, and every cycle completed   *)
(*           since then had it among its established connections;          *)
(* "gap"     an alert has been printed for it, and some cycle completed    *)
(*           since then did not have it among its established connections. *)

MarkAlert(conn_id) == [episode EXCEPT ![conn_id] = "held"]

MarkCycle(sample) ==
    [k \in AllConnIds |->
        IF /\ episode[k] = "held"
           /\ ~\E n \in 1..Len(sample) :
                  /\ sample[n].status = CONN_ESTABLISHED
                  /\ sample[n].raddr # <<>>
                  /\ ConnId(sample[n]) = k
        THEN "gap"
        ELSE episode[k]]

-----------------------------------------------------------------------------
(* Startup: main() and NetworkMonitor.__init__.                            *)

Init ==
    /\ env \in Environments
    /\ pc = "main"
    /\ entries = <<>>
    /\ i = 1
    /\ target_ranges = <<>>
    /\ exclude_ranges = <<>>
    /\ warnings = <<>>
    /\ alerted_connections = {}
    /\ connections = <<>>
    /\ idx = 1
    /\ printed = <<>>
    /\ exit_code = -1
    /\ episode = [k \in AllConnIds |-> "unseen"]

\* What subprocess.run(['which', 'notify-send'], check=True) can do: exit 0, exit
\* non-zero (CalledProcessError), or find no `which` to run (FileNotFoundError).
WhichOutcomes == {"found", "CalledProcessError", "FileNotFoundError"}

\* Lines 159-163: only CalledProcessError is caught.
WhichRaises(outcome) == outcome = "FileNotFoundError"

\* Lines 157-163: the banner and the test for notify-send; an exception that is
\* not caught ends the process with exit code 1.
Main ==
    /\ pc = "main"
    /\ \E outcome \in WhichOutcomes :
          IF WhichRaises(outcome)
          THEN pc' = "exited" /\ exit_code' = 1
          ELSE pc' = "init" /\ UNCHANGED exit_code
    /\ UNCHANGED <<env, entries, i, target_ranges, exclude_ranges, warnings,
                   alerted_connections, connections, idx, printed, episode>>

\* Lines 164 and 13-17: the target list is read and split.
ReadTargets ==
    /\ pc = "init"
    /\ entries' = Split(Getenv(env.target, DefaultTargetRanges), ",")
    /\ i' = 1
    /\ target_ranges' = <<>>
    /\ pc' = "parse_target"
    /\ UNCHANGED <<env, exclude_ranges, warnings, alerted_connections, connections,
                   idx, printed, exit_code, episode>>

\* A variant of the loop body in which a rejected entry becomes 0.0.0.0/0.
AppendRangeLenient(ranges, range_str) ==
    LET stripped == Strip(range_str) IN
    IF stripped = <<>> THEN ranges
    ELSE IF IpNetwork(stripped).ok THEN Append(ranges, IpNetwork(stripped))
    ELSE Append(ranges, [ok |-> TRUE, version |-> 4, octets |-> <<0, 0, 0, 0>>,
                         hextets |-> <<>>, scope_id |-> <<>>, prefixlen |-> 0])

\* The body of either parsing loop (lines 18-23, 34-39) on one entry: the list of
\* ranges afterwards.
AppendRange(ranges, range_str) ==
    LET stripped == Strip(range_str) IN
    IF stripped = <<>> THEN ranges
    ELSE IF IpNetwork(stripped).ok THEN Append(ranges, IpNetwork(stripped))
    ELSE ranges

\* The same body: the warnings afterwards.
AppendWarning(warned, range_str) ==
    LET stripped == Strip(range_str) IN
    IF stripped # <<>> /\ ~IpNetwork(stripped).ok THEN Append(warned, stripped)
    ELSE warned

\* Lines 17-23: one iteration of the loop over the target entries.
ParseTargetEntry ==
    /\ pc = "parse_target"
    /\ i <= Len(entries)
    /\ target_ranges' = AppendRange(target_ranges, entries[i])
    /\ warnings' = AppendWarning(warnings, entries[i])
    /\ i' = i + 1
    /\ UNCHANGED <<env, pc, entries, exclude_ranges, alerted_connections, connections,
                   idx, printed, exit_code, episode>>

\* A variant of line 25 that never finds the list empty.
NoTargetsIgnored(ranges) == FALSE

\* Line 25: `if not self.target_ranges`.
NoTargets(ranges) == ranges = <<>>

\* Lines 25-31: exit(1) on an empty target list, else the exclude list is read.
CheckTargets ==
    /\ pc = "parse_target"
    /\ i > Len(entries)
    /\ IF NoTargets(target_ranges)
       THEN /\ pc' = "exited"
            /\ exit_code' = 1
            /\ UNCHANGED <<entries, i, exclude_ranges>>
       ELSE /\ pc' = "parse_exclude"
            /\ entries' = Split(Getenv(env.exclude, DefaultExcludeRanges), ",")
            /\ i' = 1
            /\ exclude_ranges' = <<>>
            /\ UNCHANGED exit_code
    /\ UNCHANGED <<env, target_ranges, warnings, alerted_connections, connections,
                   idx, printed, episode>>

\* Lines 33-39: one iteration of the loop over the exclude entries.
ParseExcludeEntry ==
    /\ pc = "parse_exclude"
    /\ i <= Len(entries)
    /\ exclude_ranges' = AppendRange(exclude_ranges, entries[i])
    /\ warnings' = AppendWarning(warnings, entries[i])
    /\ i' = i + 1
    /\ UNCHANGED <<env, pc, entries, target_ranges, alerted_connections, connections,
                   idx, printed, exit_code, episode>>

\* Lines 41-44, 165 and 98-106: the alert memory starts empty and the loop is entered.
StartMonitor ==
    /\ pc = "parse_exclude"
    /\ i > Len(entries)
    /\ alerted_connections' = {}
    /\ pc' = "sample"
    /\ UNCHANGED <<env, entries, i, target_ranges, exclude_ranges, warnings, connections,
                   idx, printed, exit_code, episode>>

-----------------------------------------------------------------------------
(* The monitoring loop: NetworkMonitor.monitor_connections.                *)

\* A variant of lines 153-154 written inside the while loop: the failure is
\* reported and the loop goes on to another sample.
RaiseContinue(what) ==
    /\ printed' = Append(printed, ErrorLine(what))
    /\ pc' = "sample"
    /\ UNCHANGED exit_code

\* What can raise an Exception inside the try block of lines 106-150.
Raisable == {"net_connections", "get_process_name", "send_notification", "sleep"}

\* The position of an exception that has left the try block and is at its except
\* clause, whose print has not run: line 153 for an Exception, by what raised it.
ExceptPc(what) == "except " \o what

ErrorPcs == {ExceptPc(what) : what \in Raisable}

\* The same for KeyboardInterrupt: line 151.
InterruptedPc == "except KeyboardInterrupt"

\* Line 153: an exception leaves the while loop and is caught outside it.
Raise(what) ==
    /\ pc' = ExceptPc(what)
    /\ UNCHANGED <<printed, exit_code>>

\* Line 108: psutil.net_connections returns a sample, or raises.
Sample ==
    /\ pc = "sample"
    /\ \/ \E s \in Samples :
            /\ connections' = s
            /\ idx' = 1
            /\ printed' = <<>>
            /\ pc' = "for"
            /\ UNCHANGED exit_code
       \/ /\ Raise("net_connections")
          /\ UNCHANGED <<connections, idx>>
    /\ UNCHANGED <<env, entries, i, target_ranges, exclude_ranges, warnings,
                   alerted_connections, episode>>

\* What psutil.Process(pid).name() can do.
LookupOutcomes == {"name", "NoSuchProcess", "AccessDenied", "OSError"}

\* Lines 88-94: get_process_name; only the two psutil errors are caught.
GetProcessName(pid, outcome) ==
    CASE outcome = "name" -> [raised |-> FALSE, name |-> "proc"]
      [] outcome \in {"NoSuchProcess", "AccessDenied"} -> [raised |-> FALSE, name |-> "Unknown"]
      [] OTHER -> [raised |-> TRUE, name |-> ""]

\* Line 128: the lookup is made only for a truthy pid.
ProcessName(pid, outcome) ==
    IF pid # 0 THEN GetProcessName(pid, outcome) ELSE [raised |-> FALSE, name |-> "Unknown"]

\* Lines 111-112: the connections the for loop looks at.
Considered(conn) ==
    conn.status = CONN_ESTABLISHED /\ conn.raddr # <<>> /\ conn.laddr # <<>>

\* A variant of lines 118-127 without the memory test of line 127.
ShouldAlertNoMemory(conn) ==
    /\ Considered(conn)
    /\ ~IsExcludedIp(conn.raddr[1]).found
    /\ IsTargetIp(conn.raddr[1]).found

\* Lines 118-127: the connection is to be alerted on.
ShouldAlert(conn) ==
    /\ Considered(conn)
    /\ ~IsExcludedIp(conn.raddr[1]).found
    /\ IsTargetIp(conn.raddr[1]).found
    /\ ConnId(conn) \notin alerted_connections

\* Lines 110-135: one connection of the for loop, up to its printed alert.
ProcessConn ==
    /\ pc = "for"
    /\ idx <= Len(connections)
    /\ LET conn == connections[idx] IN
       IF ShouldAlert(conn)
       THEN \E outcome \in LookupOutcomes :
               LET process == ProcessName(conn.pid, outcome) IN
               IF process.raised
               THEN /\ Raise("get_process_name")
                    /\ UNCHANGED <<idx, episode>>
               ELSE /\ printed' = Append(printed,
                            AlertLine(conn, process.name, IsTargetIp(conn.raddr[1]).range))
                    /\ episode' = MarkAlert(ConnId(conn))
                    /\ pc' = "notify"
                    /\ UNCHANGED <<idx, exit_code>>
       ELSE /\ idx' = idx + 1
            /\ UNCHANGED <<pc, printed, episode, exit_code>>
    /\ UNCHANGED <<env, entries, i, target_ranges, exclude_ranges, warnings,
                   alerted_connections, connections>>

\* What notify-send can do: run, exit non-zero (not checked), or fail to start.
NotifyOutcomes == {"sent", "nonzero", "raised"}

\* A variant of send_notification without its try/except.
SendNotificationUncaught(outcome) ==
    [raised |-> outcome = "raised", failed |-> FALSE]

\* Lines 46-64: send_notification; whatever subprocess.run raises is caught and
\* logged, so nothing is raised to the caller.
SendNotification(outcome) ==
    [raised |-> FALSE, failed |-> outcome = "raised"]

\* A variant of line 143 that forgets to add the id.
RememberNothing(memory, conn_id) == memory

\* Line 143: self.alerted_connections.add(conn_id).
Remember(memory, conn_id) == memory \cup {conn_id}

\* Lines 137-142: the notification, up to the return of send_notification.
Notify ==
    /\ pc = "notify"
    /\ \E outcome \in NotifyOutcomes :
          LET sent == SendNotification(outcome) IN
          IF sent.raised
          THEN Raise("send_notification")
          ELSE /\ printed' = IF sent.failed THEN Append(printed, NotifyFailedLine)
                             ELSE printed
               /\ pc' = "remember"
               /\ UNCHANGED exit_code
    /\ UNCHANGED <<env, entries, i, target_ranges, exclude_ranges, warnings,
                   alerted_connections, connections, idx, episode>>

\* Line 143, then back to line 110: the id is remembered and the for loop goes
\* to the next connection.
AddAlerted ==
    /\ pc = "remember"
    /\ alerted_connections' = Remember(alerted_connections, ConnId(connections[idx]))
    /\ idx' = idx + 1
    /\ pc' = "for"
    /\ UNCHANGED <<env, entries, i, target_ranges, exclude_ranges, warnings,
                   connections, printed, exit_code, episode>>

\* A variant of lines 145-147 that builds the ids from the local addresses.
ActiveConnectionsLocal(sample) ==
    {sample[n].laddr[1] \o <<":">> \o IntToStr(sample[n].laddr[2]) :
        n \in {m \in 1..Len(sample) :
            sample[m].raddr # <<>> /\ sample[m].status = CONN_ESTABLISHED}}

\* A variant of lines 145-147 that forgets the status test.
ActiveConnectionsAnyStatus(sample) ==
    {ConnId(sample[n]) : n \in {m \in 1..Len(sample) : sample[m].raddr # <<>>}}

\* Lines 145-147: the ids of the established connections of the sample.
ActiveConnections(sample) ==
    {ConnId(sample[n]) : n \in {m \in 1..Len(sample) :
        sample[m].raddr # <<>> /\ sample[m].status = CONN_ESTABLISHED}}

\* A variant of line 148 written `^=`.
ReconciledSymmetric(memory, sample) ==
    (memory \ ActiveConnections(sample)) \cup (ActiveConnections(sample) \ memory)

\* Line 148: self.alerted_connections &= active_connections.
Reconciled(memory, sample) == memory \cap ActiveConnections(sample)

\* A variant of line 110 in which the statements after the for loop do not wait
\* for its end (lines 145-150 indented into the loop).
ForLoopDoneEarly(index, sample) == TRUE

\* Line 110: the for loop has gone through the whole sample.
ForLoopDone(index, sample) == index > Len(sample)

\* Lines 145-148: after the for loop, the memory keeps only what is still active.
Reconcile ==
    /\ pc = "for"
    /\ ForLoopDone(idx, connections)
    /\ alerted_connections' = Reconciled(alerted_connections, connections)
    /\ episode' = MarkCycle(connections)
    /\ pc' = "sleep"
    /\ UNCHANGED <<env, entries, i, target_ranges, exclude_ranges, warnings,
                   connections, idx, printed, exit_code>>

\* The largest number of seconds that fits _PyTime_t (2^63 - 1 nanoseconds).
MaxSleepDigits == <<"9", "2", "2", "3", "3", "7", "2", "0", "3", "6">>

\* Lines 149-150: whether int() or time.sleep raises.  int() raises ValueError on
\* a text that is no integer; time.sleep raises ValueError on a negative length
\* and OverflowError on one above MaxSleepDigits.  For a length of ten digits up
\* to MaxSleepDigits the deadline (the monotonic clock plus the length) may or may
\* not be one clock_nanosleep accepts (OSError), as the clock's reading decides.
SleepRaises(interval) ==
    LET n == PyInt(interval) IN
    IF ~n.ok THEN {TRUE}
    ELSE IF n.negative /\ n.digits # <<"0">> THEN {TRUE}
    ELSE IF DigitsLess(MaxSleepDigits, n.digits) THEN {TRUE}
    ELSE IF Len(n.digits) = Len(MaxSleepDigits) THEN {TRUE, FALSE}
    ELSE {FALSE}

\* Lines 149-150, then back to line 107: the cycle is over, and so is its window
\* of printed lines.
Sleep ==
    /\ pc = "sleep"
    /\ \E raises \in SleepRaises(Getenv(env.interval, DefaultInterval)) :
          IF raises
          THEN Raise("sleep")
          ELSE /\ pc' = "sample"
               /\ printed' = <<>>
               /\ UNCHANGED exit_code
    /\ UNCHANGED <<env, entries, i, target_ranges, exclude_ranges, warnings,
                   alerted_connections, connections, idx, episode>>

\* The positions inside the try block of lines 106-150.
LoopPcs == {"sample", "for", "notify", "remember", "sleep"}

\* The positions before it: main and NetworkMonitor.__init__, up to line 105.
StartupPcs == {"main", "init", "parse_target", "parse_exclude"}

\* The positions after it: an except clause of lines 151-154, and the return of
\* monitor_connections to main.
ShutdownPcs == ErrorPcs \cup {InterruptedPc, "returned"}

\* Ctrl+C before the try block: nothing catches KeyboardInterrupt, the interpreter
\* prints the traceback and the process dies of SIGINT (return code -2).
InterruptStartup ==
    /\ pc \in StartupPcs
    /\ pc' = "exited"
    /\ exit_code' = -2
    /\ UNCHANGED <<env, entries, i, target_ranges, exclude_ranges, warnings,
                   alerted_connections, connections, idx, printed, episode>>

\* Ctrl+C after the try block was left, in an except clause or on the way out of
\* main: nothing catches it there either.
InterruptShutdown ==
    /\ pc \in ShutdownPcs
    /\ pc' = "exited"
    /\ exit_code' = -2
    /\ UNCHANGED <<env, entries, i, target_ranges, exclude_ranges, warnings,
                   alerted_connections, connections, idx, printed, episode>>

\* A variant in which send_notification's handler is a bare `except:` and so
\* swallows a Ctrl+C that arrives during the notification.
InterruptSwallowed ==
    /\ pc \in LoopPcs
    /\ IF pc = "notify"
       THEN /\ printed' = Append(printed, NotifyFailedLine)
            /\ UNCHANGED pc
       ELSE /\ pc' = InterruptedPc
            /\ UNCHANGED printed
    /\ UNCHANGED <<env, entries, i, target_ranges, exclude_ranges, warnings,
                   alerted_connections, connections, idx, exit_code, episode>>

\* Line 151: Ctrl+C anywhere inside the try block leaves the while loop and is
\* caught outside it.
Interrupt ==
    /\ pc \in LoopPcs
    /\ pc' = InterruptedPc
    /\ UNCHANGED <<env, entries, i, target_ranges, exclude_ranges, warnings,
                   alerted_connections, connections, idx, printed, exit_code, episode>>

\* Line 152: the shutdown message; monitor_connections returns.
PrintStopping ==
    /\ pc = InterruptedPc
    /\ printed' = Append(printed, StoppingLine)
    /\ pc' = "returned"
    /\ UNCHANGED <<env, entries, i, target_ranges, exclude_ranges, warnings,
                   alerted_connections, connections, idx, exit_code, episode>>

\* Line 154: the message of the exception; monitor_connections returns.
PrintError ==
    /\ \E what \in Raisable :
          /\ pc = ExceptPc(what)
          /\ printed' = Append(printed, ErrorLine(what))
    /\ pc' = "returned"
    /\ UNCHANGED <<env, entries, i, target_ranges, exclude_ranges, warnings,
                   alerted_connections, connections, idx, exit_code, episode>>

\* Lines 165-168: main returns and the process ends with exit code 0.
Return ==
    /\ pc = "returned"
    /\ pc' = "exited"
    /\ exit_code' = 0
    /\ UNCHANGED <<env, entries, i, target_ranges, exclude_ranges, warnings,
                   alerted_connections, connections, idx, printed, episode>>

Next ==
    \/ Main
    \/ ReadTargets
    \/ ParseTargetEntry
    \/ CheckTargets
    \/ ParseExcludeEntry
    \/ StartMonitor
    \/ Sample
    \/ ProcessConn
    \/ Notify
    \/ AddAlerted
    \/ Reconcile
    \/ Sleep
    \/ Interrupt
    \/ PrintStopping
    \/ PrintError
    \/ Return
    \/ InterruptStartup
    \/ InterruptShutdown

Spec == Init /\ [][Next]_vars

-----------------------------------------------------------------------------
(* Startup alone, over a wider choice of range lists.                      *)

\* Range lists: valid entries, malformed ones, blank ones, surrounding spaces, a
\* dotted netmask, host bits set, a match-everything range, IPv6 ranges and a line
\* ending, a space that is not ASCII and a prefix of more digits than int()
\* converts.
RangeLists ==
    { Unset,
      <<Cidr(10, 0, 0, 0, 8)>>,
      <<Cidr(999, 1, 1, 1, 33) \o <<",">> \o Cidr(10, 0, 0, 0, 8)>>,
      <<Cidr(10, 0, 0, 0, 8) \o <<",">> \o Cidr(999, 1, 1, 1, 33) \o <<",">>
            \o Cidr(192, 168, 0, 0, 16)>>,
      <<Cidr(10, 0, 0, 0, 8) \o <<",", " ">> \o Cidr(172, 16, 0, 0, 12)
            \o <<" ", ",", ",">> \o Ip4(192, 168, 1, 7)>>,
      <<Ip4(10, 0, 0, 0) \o <<"/">> \o Ip4(255, 0, 0, 0) \o <<",">>
            \o Ip4(10, 0, 0, 0) \o <<"/">> \o Ip4(0, 0, 0, 0)>>,
      <<<<"/", "0", ",">> \o Cidr(10, 0, 0, 0, 8) \o <<"/", "8", ",", "x">>>>,
      <<<<" ", ",">>>>,
      <<<<>>>>,
      <<Cidr(192, 168, 1, 0, 24) \o <<",">> \o Cidr(0, 0, 0, 0, 0)>>,
      <<<<"2", "0", "0", "1", ":", "D", "B", "8", ":", ":", "/", "3", "2", ",",
          ":", ":", "1", ",", " ", "f", "e", "8", "0", ":", ":", "1", "/", "6", "4", ",">>
            \o Cidr(10, 0, 0, 0, 8) \o <<"\r", "\n">>>>,
      <<Cidr(10, 0, 0, 0, 8) \o <<UnicodeChar(5760), ",">> \o Ip4(10, 0, 0, 0) \o <<"/">>
            \o Zeros(MaxStrDigits) \o <<"8">>>> }

InitParse ==
    /\ env \in [target : RangeLists, exclude : RangeLists, interval : {Unset}]
    /\ pc = "main"
    /\ entries = <<>>
    /\ i = 1
    /\ target_ranges = <<>>
    /\ exclude_ranges = <<>>
    /\ warnings = <<>>
    /\ alerted_connections = {}
    /\ connections = <<>>
    /\ idx = 1
    /\ printed = <<>>
    /\ exit_code = -1
    /\ episode = [k \in AllConnIds |-> "unseen"]

NextParse ==
    \/ Main
    \/ ReadTargets
    \/ ParseTargetEntry
    \/ CheckTargets
    \/ ParseExcludeEntry
    \/ StartMonitor
    \/ InterruptStartup

SpecParse == InitParse /\ [][NextParse]_vars

-----------------------------------------------------------------------------
(* Vocabulary of the properties.                                           *)

\* The step prints the alert block of connection id k.
AlertPrinted(k) ==
    /\ Len(printed') = Len(printed) + 1
    /\ printed'[Len(printed')].type = "ALERT"
    /\ printed'[Len(printed')].conn_id = k

\* A Ctrl+C has just left the loop.
InterruptCaught == pc = InterruptedPc

\* The last printed line is the shutdown message of an interrupt.
Interrupted == printed # <<>> /\ printed[Len(printed)].type = "stopping"

\* The last printed line reports a failure caught by `except Exception`.
FailureLogged == printed # <<>> /\ printed[Len(printed)].type = "error"

\* The last printed line reports the failure of `what`.
Failed(what) ==
    /\ printed # <<>>
    /\ printed[Len(printed)].type = "error"
    /\ printed[Len(printed)].what = what

\* The address, as ip_address returns it, is a member of some range of the list.
InAny(ip, ranges) == ip.ok /\ \E k \in 1..Len(ranges) : InNetwork(ip, ranges[k])

\* The same for the text of an address.
MemberOfAny(ip_str, ranges) == InAny(IpAddress(ip_str), ranges)

\* The connections of the table that have a remote address, and the remote
\* address of each endpoint key as ip_address returns it.
Peers == {d \in ConnectionTable : d.raddr # <<>>}

AddressOf ==
    [k \in AllConnIds |-> IpAddress((CHOOSE c \in Peers : ConnId(c) = k).raddr[1])]

\* The endpoint keys of the alerts printed in the current cycle.
AlertedKeys ==
    {printed[n].conn_id : n \in {m \in 1..Len(printed) : printed[m].type = "ALERT"}}

\* Targeted: in a target range and in no exclude range.
Targeted(ip_str) ==
    MemberOfAny(ip_str, target_ranges) /\ ~MemberOfAny(ip_str, exclude_ranges)

\* The established connections of the current sample, and their endpoint keys.
Established == {connections[n] : n \in {m \in 1..Len(connections) :
                    connections[m].status = CONN_ESTABLISHED}}

Observed == {ConnId(c) : c \in {d \in Established : d.raddr # <<>>}}

\* The loop over the target entries has run to its end (split never returns an
\* empty list, so `entries` is empty only before the target list is read) and the
\* process has not been killed by a Ctrl+C during startup.
TargetsParsed == entries # <<>> /\ pc # "parse_target" /\ exit_code # -2

-----------------------------------------------------------------------------
(* Properties.                                                             *)

\* C1: once an alert has been printed for an endpoint key, no other alert is
\* printed for it unless a cycle completed in between whose sample did not hold the
\* key among its established connections.
C1_NoRepeatWhilePresent ==
    [][\A k \in AllConnIds : AlertPrinted(k) => episode[k] # "held"]_vars

\* C1 witness: a cycle has run to its sleep with an already alerted key still in
\* the sample, and printed no alert for it.
C1_Witness ==
    /\ pc = "sleep"
    /\ \E k \in Observed :
          /\ episode[k] = "held"
          /\ k \in alerted_connections
          /\ AlertsFor(printed, k) = {}

\* C2: for a remote address that is a member of an exclude range, no alert is
\* printed and no key is remembered, whether or not a target range holds it too:
\* the address of every remembered key and of every printed alert is in no
\* exclude range.
C2_ExclusionDominates ==
    \A k \in alerted_connections \cup AlertedKeys :
        k \in AllConnIds /\ ~InAny(AddressOf[k], exclude_ranges)

\* C2 witness: a cycle has processed an established connection whose address is in
\* a target range and in an exclude range.
C2_Witness ==
    /\ pc = "sleep"
    /\ \E c \in Established :
          /\ MemberOfAny(c.raddr[1], exclude_ranges)
          /\ MemberOfAny(c.raddr[1], target_ranges)

\* C3 as claimed: whenever the for loop reaches an established connection with a
\* Targeted address whose key is not remembered, and is not interrupted, it prints
\* the alert of that key.
C3_UnseenTargetedAlerts ==
    [][(/\ pc = "for"
        /\ idx <= Len(connections)
        /\ connections[idx] \in Established
        /\ Targeted(connections[idx].raddr[1])
        /\ ConnId(connections[idx]) \notin alerted_connections
        /\ ~InterruptCaught')
          => AlertPrinted(ConnId(connections[idx]))]_vars

\* C4: the step that ends a cycle's for loop sets the memory to its intersection
\* with the keys of the established connections of the cycle's sample.
C4_ReconcileIsIntersection ==
    [][(pc = "for" /\ pc' = "sleep")
          => alerted_connections' = alerted_connections \cap Observed]_vars

\* C4 witness: a reconciliation has dropped one alerted key, absent from the
\* sample, and kept another, present in it.
C4_Witness ==
    /\ pc = "sleep"
    /\ \E k \in AllConnIds : episode[k] = "gap" /\ k \notin alerted_connections
    /\ \E k \in Observed : k \in alerted_connections

\* C5 as claimed: when psutil.net_connections has raised, the step that logs the
\* failure leaves the loop running, for another cycle, and the memory as it was.
C5_SamplingFailureContinues ==
    [][(~FailureLogged /\ Failed("net_connections")')
          => (pc' \in LoopPcs /\ UNCHANGED alerted_connections)]_vars

\* C6: a notification that is not interrupted, whether notify-send ran or failed,
\* returns to the loop, which, unless interrupted, remembers the key and goes on
\* to the next connection; and no alert is ever printed for a remembered key.
C6_NotifyFailureHarmless ==
    [][/\ (pc = "notify" /\ ~InterruptCaught')
            => /\ pc' = "remember"
               /\ UNCHANGED <<idx, alerted_connections>>
       /\ (pc = "remember" /\ ~InterruptCaught')
            => /\ pc' = "for"
               /\ idx' = idx + 1
               /\ ConnId(connections[idx]) \in alerted_connections'
       /\ \A k \in AllConnIds : AlertPrinted(k) => k \notin alerted_connections]_vars

\* C6 witness: the notification of an alert failed and the cycle ran on to its
\* sleep with the key remembered.
C6_Witness ==
    /\ pc = "sleep"
    /\ \E n \in 2..Len(printed) :
          /\ printed[n].type = "notify_failed"
          /\ printed[n - 1].type = "ALERT"
          /\ printed[n - 1].conn_id \in alerted_connections

\* C7 as claimed: no failure of the process lookup ever reaches the loop.
C7_LookupNeverFails == ~Failed("get_process_name")

PrivateProbes ==
    { Ip4(10, 0, 0, 2), Ip4(10, 10, 0, 1), Ip4(10, 255, 255, 255),
      Ip4(172, 16, 0, 1), Ip4(172, 31, 255, 255),
      Ip4(192, 168, 0, 0), Ip4(192, 168, 1, 5) }

\* C8 as claimed: with TARGET_IP_RANGES unset, every private address is a member
\* of a parsed target range.
C8_DefaultCoversPrivate ==
    (env.target = Unset /\ pc \in LoopPcs)
        => \A a \in PrivateProbes : MemberOfAny(a, target_ranges)

\* C9: once the target list is parsed, an empty one means the process has exited
\* with code 1 before the loop (no sample, no printed line); with a target range
\* the exit code is never 1 and, whatever the exclude list parsed to, the loop
\* can start.
C9_EmptyTargetsFatal ==
    /\ (TargetsParsed /\ target_ranges = <<>>)
          => /\ pc = "exited"
             /\ exit_code = 1
             /\ connections = <<>>
             /\ printed = <<>>
    /\ target_ranges # <<>> => exit_code # 1
    /\ (pc = "parse_exclude" /\ i > Len(entries)) => ENABLED StartMonitor

\* C9 witness: every entry of a non-blank target list was skipped and the process
\* exited with code 1.
C9_Witness ==
    /\ pc = "exited"
    /\ exit_code = 1
    /\ warnings # <<>>

\* An entry that ip_network accepts once stripped.
IsValidEntry(e) == IpNetwork(Strip(e)).ok

\* An entry that is neither blank nor accepted.
IsMalformedEntry(e) == Strip(e) # <<>> /\ ~IpNetwork(Strip(e)).ok

\* The valid entries of a list, in order, each parsed alone.
ParsedAlone(es) ==
    LET valid == SelectSeq(es, IsValidEntry)
    IN  [k \in 1..Len(valid) |-> IpNetwork(Strip(valid[k]))]

Stripped(es) == [k \in 1..Len(es) |-> Strip(es[k])]

TargetEntries == Split(Getenv(env.target, DefaultTargetRanges), ",")

ExcludeEntries == Split(Getenv(env.exclude, DefaultExcludeRanges), ",")

\* C10: each parsing loop, at every point, has built exactly the valid entries
\* read so far, in order, each as it parses alone, and has warned about exactly
\* the malformed ones; both loops run to the end of their lists.
C10_EntriesParsedIndependently ==
    /\ pc = "parse_target"
          => /\ i <= Len(entries) + 1
             /\ entries = TargetEntries
             /\ target_ranges = ParsedAlone(SubSeq(entries, 1, i - 1))
             /\ warnings = Stripped(SelectSeq(SubSeq(entries, 1, i - 1), IsMalformedEntry))
    /\ TargetsParsed
          => target_ranges = ParsedAlone(TargetEntries)
    /\ pc = "parse_exclude"
          => /\ i <= Len(entries) + 1
             /\ entries = ExcludeEntries
             /\ exclude_ranges = ParsedAlone(SubSeq(entries, 1, i - 1))
    /\ pc \in LoopPcs
          => /\ exclude_ranges = ParsedAlone(ExcludeEntries)
             /\ warnings = Stripped(SelectSeq(TargetEntries, IsMalformedEntry))
                             \o Stripped(SelectSeq(ExcludeEntries, IsMalformedEntry))

\* C10 witness: a target list with a malformed entry between two valid ones has
\* been parsed to its end.
C10_Witness ==
    /\ pc = "parse_exclude"
    /\ Len(TargetEntries) = 3
    /\ IsValidEntry(TargetEntries[1])
    /\ IsMalformedEntry(TargetEntries[2])
    /\ IsValidEntry(TargetEntries[3])
    /\ Len(target_ranges) = 2

\* An interrupt taken in this state: the loop is left for the except clause of
\* line 151, and the sample, the memory and the printed lines are as they were.
InterruptStops ==
    /\ Interrupt
    /\ pc' = InterruptedPc
    /\ UNCHANGED <<alerted_connections, connections, printed, exit_code>>

\* C11: at every point of the loop (sampling, the for loop, the notification, the
\* add to the memory, the reconciliation that ends the for loop, the sleep) an
\* interrupt can be taken and leaves the loop as InterruptStops says; from there,
\* unless another Ctrl+C kills the process, the shutdown message is printed and
\* then the process ends with exit code 0, and each of these steps can be taken;
\* and once the loop is left no sample is taken, no alert is printed and the
\* memory does not change.
C11_InterruptStopsLoop ==
    /\ [](/\ pc \in LoopPcs => ENABLED InterruptStops
          /\ pc = InterruptedPc => ENABLED PrintStopping
          /\ pc = "returned" => ENABLED Return)
    /\ [][/\ (pc = InterruptedPc /\ exit_code' # -2)
                => /\ printed' = Append(printed, StoppingLine)
                   /\ pc' = "returned"
          /\ (pc = "returned" /\ exit_code' # -2)
                => /\ pc' = "exited"
                   /\ exit_code' = 0
          /\ (~Interrupted /\ Interrupted') => pc = InterruptedPc
          /\ pc \in ShutdownPcs
                => /\ pc' \in ShutdownPcs \cup {"exited"}
                   /\ UNCHANGED <<alerted_connections, connections>>
                   /\ \A k \in AllConnIds : ~AlertPrinted(k)
          /\ pc # "exited"]_vars

\* C11 witness: the process has ended by an interrupt taken between an alert's
\* print and its notification.
C11_Witness ==
    /\ pc = "exited"
    /\ exit_code = 0
    /\ Len(printed) >= 2
    /\ printed[Len(printed)].type = "stopping"
    /\ printed[Len(printed) - 1].type = "ALERT"
    /\ printed[Len(printed) - 1].conn_id \notin alerted_connections

\* C12: a failure raised in a cycle leaves the loop for the except clause of line
\* 153, and the loop is left only so or by an interrupt; there, unless a Ctrl+C
\* kills the process, the failure is logged and monitor_connections returns; a
\* failure is logged nowhere else; and once the loop is left no sample is taken,
\* no alert is printed and the memory does not change.
C12_FailStop ==
    [][/\ (pc \in LoopPcs /\ pc' \notin LoopPcs)
              => /\ pc' \in ErrorPcs \cup {InterruptedPc}
                 /\ UNCHANGED <<alerted_connections, connections, printed>>
       /\ (pc \in ErrorPcs /\ exit_code' # -2)
              => /\ FailureLogged'
                 /\ Len(printed') = Len(printed) + 1
                 /\ pc' = "returned"
       /\ (~FailureLogged /\ FailureLogged') => pc \in ErrorPcs
       /\ pc \in ShutdownPcs \cup {"exited"}
              => /\ pc' \in {"returned", "exited"}
                 /\ UNCHANGED <<alerted_connections, connections>>
                 /\ \A k \in AllConnIds : ~AlertPrinted(k)]_vars

\* C12 witness: the process has ended by a failure of the sleep (an interval that
\* is not a number) with a key in the memory.
C12_Witness ==
    /\ pc = "exited"
    /\ Failed("sleep")
    /\ alerted_connections # {}

\* C13: reconciling a second time with the same sample changes nothing: for every
\* memory and sample the for loop meets, Reconciled applied to its own result
\* returns that result, and the memory left by the reconciliation of a cycle is
\* returned as it is by another reconciliation with that cycle's sample.
C13_ReconcileIdempotent ==
    /\ pc \in {"for", "notify", "remember"}
          => Reconciled(Reconciled(alerted_connections, connections), connections)
                 = Reconciled(alerted_connections, connections)
    /\ pc = "sleep"
          => Reconciled(alerted_connections, connections) = alerted_connections

\* C13 witness: a reconciliation that dropped a key and kept another, with a sample
\* that also holds a key the memory does not have.
C13_Witness ==
    /\ pc = "sleep"
    /\ alerted_connections # {}
    /\ Observed \ alerted_connections # {}
    /\ \E k \in AllConnIds : episode[k] = "gap" /\ k \notin alerted_connections

\* The places in the sample of the established connections with endpoint key k.
PlacesOf(k) ==
    {m \in 1..Len(connections) :
        /\ connections[m].status = CONN_ESTABLISHED
        /\ connections[m].raddr # <<>>
        /\ ConnId(connections[m]) = k}

\* C14: in one cycle at most one alert is printed for an endpoint key, and it is
\* the alert of the first established connection of the sample with that key (its
\* local port and pid), whatever other connections share the key.
C14_OneAlertPerKeyPerCycle ==
    \A k \in AllConnIds :
        /\ Cardinality(AlertsFor(printed, k)) <= 1
        /\ \A n \in AlertsFor(printed, k) :
              /\ PlacesOf(k) # {}
              /\ \E m \in PlacesOf(k) :
                    /\ \A j \in PlacesOf(k) : m <= j
                    /\ printed[n].lport = connections[m].laddr[2]
                    /\ printed[n].pid = connections[m].pid

\* C14 witness: a completed for loop over two established connections with the same
\* endpoint key and different local ports and pids, with the first one's alert.
C14_Witness ==
    /\ pc = "sleep"
    /\ Len(connections) = 2
    /\ \E k \in AllConnIds :
          /\ PlacesOf(k) = {1, 2}
          /\ connections[1].laddr[2] # connections[2].laddr[2]
          /\ connections[1].pid # connections[2].pid
          /\ Cardinality(AlertsFor(printed, k)) = 1
          /\ \A n \in AlertsFor(printed, k) :
                printed[n].lport = connections[1].laddr[2]
          /\ k \in alerted_connections

\* C15: a cycle runs in the order sample, for loop, reconciliation, sleep.  The
\* sample changes only in the step that takes it, which starts the for loop at the
\* first connection; the for loop goes through the connections one by one, and an
\* alert is printed only there, for the connection of that sample the loop is at;
\* the reconciliation starts only when the loop has passed the last connection,
\* and uses that same sample; the sleep follows the reconciliation, and the next
\* sample is taken only after the sleep (or, for the first cycle, after startup).
C15_CycleOrder ==
    [][/\ connections' # connections => pc = "sample"
       /\ pc = "sample" => \/ pc' \in ShutdownPcs
                           \/ pc' = "for" /\ idx' = 1
       /\ (pc = "for" /\ pc' = "for")
              => /\ idx <= Len(connections)
                 /\ idx' = idx + 1
       /\ (pc = "for" /\ pc' = "notify")
              => /\ idx <= Len(connections)
                 /\ idx' = idx
                 /\ AlertPrinted(ConnId(connections[idx]))
       /\ pc = "notify" => \/ pc' \in ShutdownPcs
                           \/ pc' = "remember" /\ idx' = idx
       /\ pc = "remember" => \/ pc' \in ShutdownPcs
                             \/ pc' = "for" /\ idx' = idx + 1
       /\ (\E k \in AllConnIds : AlertPrinted(k)) => (pc = "for" /\ pc' = "notify")
       /\ pc' = "sleep"
              => /\ pc = "for"
                 /\ idx = Len(connections) + 1
                 /\ alerted_connections' = alerted_connections \cap Observed'
       /\ pc = "for" => pc' \in {"for", "notify", "sleep"} \cup ShutdownPcs
       /\ pc = "sleep" => pc' \in {"sample"} \cup ShutdownPcs
       /\ pc' = "sample" => pc \in {"sleep", "parse_exclude"}]_vars

\* C15 witness: a second cycle is at its reconciliation point: a key alerted in an
\* earlier cycle is in the memory, and the for loop has passed both connections of
\* the present sample.
C15_Witness ==
    /\ pc = "for"
    /\ Len(connections) = MaxConns
    /\ idx = Len(connections) + 1
    /\ \E k \in alerted_connections : AlertsFor(printed, k) = {}

\* The connection is not established, or its remote address is excluded, or in no
\* target range (an address that does not parse is in none), or its key is already
\* in the memory.
Suppressed(conn) ==
    \/ conn.status # CONN_ESTABLISHED
    \/ /\ conn.raddr # <<>>
       /\ \/ MemberOfAny(conn.raddr[1], exclude_ranges)
          \/ ~MemberOfAny(conn.raddr[1], target_ranges)
          \/ ConnId(conn) \in alerted_connections

\* C16: when the for loop processes a Suppressed connection, the memory and the
\* printed lines stay as they are and the loop moves to the next connection; and a
\* step that puts a key in the memory that was not there is the step after the
\* alert of an established Targeted connection with an unseen key, whose alert has
\* been printed, and it adds that key and nothing else.
C16_OnlyAlertsRemember ==
    [][/\ (pc = "for" /\ idx <= Len(connections) /\ ~InterruptCaught'
                /\ Suppressed(connections[idx]))
              => /\ UNCHANGED <<alerted_connections, printed>>
                 /\ pc' = "for"
                 /\ idx' = idx + 1
       /\ alerted_connections' \ alerted_connections # {}
              => /\ pc = "remember"
                 /\ connections[idx].status = CONN_ESTABLISHED
                 /\ Targeted(connections[idx].raddr[1])
                 /\ ConnId(connections[idx]) \notin alerted_connections
                 /\ AlertsFor(printed, ConnId(connections[idx])) # {}
                 /\ alerted_connections' =
                        alerted_connections \cup {ConnId(connections[idx])}]_vars

\* C16 witness: the for loop has passed a connection whose key was in the memory
\* and a connection whose remote address does not parse, with nothing printed and
\* the memory still that one key.
C16_Witness ==
    /\ pc = "for"
    /\ Len(connections) = 2
    /\ idx = 3
    /\ printed = <<>>
    /\ connections[1].status = CONN_ESTABLISHED
    /\ connections[2].status = CONN_ESTABLISHED
    /\ alerted_connections = {ConnId(connections[1])}
    /\ ~IpAddress(connections[2].raddr[1]).ok

\* The connections of the sample that are not established and have a remote
\* address whose key no established connection of the sample has.
OnlyNonEstablished ==
    {connections[m] : m \in {n \in 1..Len(connections) :
        /\ connections[n].status # CONN_ESTABLISHED
        /\ connections[n].raddr # <<>>
        /\ ConnId(connections[n]) \notin Observed}}

\* C17 as claimed: every alert printed in a cycle is the alert of an established
\* connection of the sample (its key, local port and pid); after the
\* reconciliation no key whose only connections in the sample are not established
\* is in the memory; and a key that was dropped from the memory alerts again: when
\* the for loop, not interrupted, processes an established Targeted connection
\* with that key, its alert is printed.
C17_OnlyEstablishedCount ==
    /\ [](/\ \A n \in 1..Len(printed) :
                printed[n].type = "ALERT"
                    => \E c \in Established :
                          /\ ConnId(c) = printed[n].conn_id
                          /\ c.laddr[2] = printed[n].lport
                          /\ c.pid = printed[n].pid
          /\ pc = "sleep"
                => \A c \in OnlyNonEstablished : ConnId(c) \notin alerted_connections)
    /\ [][(/\ pc = "for"
           /\ idx <= Len(connections)
           /\ ~InterruptCaught'
           /\ connections[idx].status = CONN_ESTABLISHED
           /\ Targeted(connections[idx].raddr[1])
           /\ episode[ConnId(connections[idx])] = "gap")
              => AlertPrinted(ConnId(connections[idx]))]_vars

\* C18: in every state each key of the memory is the key of a connection whose
\* remote address is in some target range and in no exclude range; and after the
\* reconciliation of a cycle each key of the memory is the key of an established
\* connection of that cycle's sample.
C18_MemoryIsTargetedAndObserved ==
    /\ alerted_connections \subseteq AllConnIds
    /\ \A k \in alerted_connections :
          /\ InAny(AddressOf[k], target_ranges)
          /\ ~InAny(AddressOf[k], exclude_ranges)
    /\ pc = "sleep" => alerted_connections \subseteq Observed

\* C18 witness: after a reconciliation the memory holds as many keys as the sample
\* has connections.
C18_Witness ==
    /\ pc = "sleep"
    /\ Cardinality(alerted_connections) = MaxConns
    /\ alerted_connections = Observed

\* C19 as claimed: a process that ended after a reported failure of the loop, and
\* was not killed by a Ctrl+C on its way out, has exit code 0; and a process that
\* exited with another code than 0 (a process killed by SIGINT has exited with
\* none) ended at the test of line 25, with no valid target range.
C19_NonZeroOnlyWithoutTargets ==
    /\ (pc = "exited" /\ FailureLogged /\ exit_code # -2) => exit_code = 0
    /\ (pc = "exited" /\ exit_code > 0) => (TargetsParsed /\ target_ranges = <<>>)

====
